---- MODULE Spec2Model ----
(***************************************************************************)
(* A model of src/linkedin_job_scraper.py: the LinkedInJobScraper object,  *)
(* the files it writes (resume state, Excel exports, browser profile), the *)
(* browser session it drives, and the control flow of run(), scrape_page() *)
(* and safe_get().                                                         *)
(***************************************************************************)
EXTENDS Integers, Sequences, FiniteSets, TLC

\* ------------------------------------------------------------ bounds
\* Restart budget of run() (the source sets 6; the model explores a smaller
\* budget, the handlers compare against this name only).
MAX_RESTARTS == 2
\* Largest page index a run configuration may name.
MaxPage == 2
\* Number of distinct job ids the list pages may show.
NJobs == 2
\* Largest number of anchors one list page shows.
MaxAnchors == 2
\* Number of times the process may be started again (after a crash, an
\* interruption or a completed run).
MaxReruns == 1
\* Number of file-system write failures the environment may inject.
MaxFaults == 1
\* Number of iterations a wait loop of safe_get makes before its time is up.
MaxPolls == 2
\* Largest start_page/end_page given to get_resume_start_page on its own, and
\* how far beyond it the last_page of a state file may lie.
MaxResumePage == 10
MaxBeyond == 5
\* Number of file-system write failures the environment may inject into one
\* run of run() explored on its own.
MaxRunFaults == 2

Pages == 1..MaxPage
Jobs == 1..NJobs

\* ------------------------------------------------------------ values
\* Python None, and the tagged values the model stores in fields that hold
\* None, an int or a string.
None == [tag |-> "None", val |-> 0]
IntV(n) == [tag |-> "int", val |-> n]

\* extract_job_id_from_url returns "unknown" when the url has no /jobs/view/<digits>.
Unknown == 0

\* Urls: a job detail link, some other link, the address the browser shows.
JobUrl(j) == [tag |-> "job", val |-> j]
OtherUrl == [tag |-> "other", val |-> 0]
CurrentUrl == [tag |-> "current", val |-> 0]

\* get_page_url: page 1 is the base url, page n appends &start=(n-1)*10.
get_page_url(page_number) ==
    IF page_number = 1 THEN [tag |-> "base", val |-> 0]
    ELSE [tag |-> "start", val |-> (page_number - 1) * 10]

extract_job_id_from_url(url) ==
    IF url.tag = "job" THEN url.val ELSE Unknown

\* sorted(list(s)): the ascending sequence of the elements of a set.
RECURSIVE SortedList(_)
SortedList(s) ==
    IF s = {} THEN <<>>
    ELSE LET m == CHOOSE x \in s : \A y \in s : x <= y
         IN <<m>> \o SortedList(s \ {m})

\* set(list): the elements of a sequence.
SetOfList(l) == {l[k] : k \in 1..Len(l)}

\* The job ids of a list of rows (self.data, or the rows of an Excel file).
JobIds(rows) == {rows[k].job_id : k \in 1..Len(rows)}

\* ------------------------------------------------------------ state
VARIABLES
    \* LinkedInJobScraper fields
    start_page, end_page, data, seen_job_ids, last_page, last_url,
    profile_poison_strikes, driver,
    \* locals of run() and scrape_page()
    pc, restarts, page_num, jobs, i, exc, exit, prev_exc,
    \* files and browser, and the notification the last step popped up
    disk, live, notice,
    \* bookkeeping of the exploration
    runs, faults, outcome, resumed,
    \* observations used to state properties
    encountered, itemFailed, expSince, saveSince,
    \* one call of safe_get: its position, its call site, the iterations its
    \* wait loop has left, what it raised, whether a driver call failed in it
    sg_pc, sg_context, sg_polls, sg_exc, sg_failed,
    \* the driver.refresh() calls it issued, and how its ready-marker wait ended
    sg_refreshes, sg_wait,
    \* the browser: does the session answer, document.readyState, a loader shown
    responsive, readyState, has_loader,
    \* the setup_driver calls of this run()
    acquisitions,
    \* one call of is_blocked_or_checkpoint: what the page shows and what the
    \* call gave
    signals, blocked,
    \* how manual_login's wait for the list after ENTER ended
    list_wait

self_vars == <<start_page, end_page, data, seen_job_ids, last_page, last_url,
               profile_poison_strikes, driver>>
run_vars == <<pc, restarts, page_num, jobs, i, exc, exit, prev_exc>>
env_vars == <<disk, live>>
aux_vars == <<runs, faults, outcome, resumed>>
obs_vars == <<encountered, itemFailed, expSince, saveSince>>
main_vars == <<self_vars, run_vars, env_vars, notice, aux_vars, obs_vars, acquisitions>>
nav_vars == <<sg_pc, sg_context, sg_polls, sg_exc, sg_failed, sg_refreshes, sg_wait,
              responsive, readyState, has_loader>>
cls_vars == <<signals, blocked, list_wait>>
side_vars == <<nav_vars, cls_vars>>
vars == <<main_vars, side_vars>>

\* The files: scrape_state.json, applications_2025_2026.xlsx and the
\* chrome_selenium_profile folder.
NoFile == [kind |-> "absent"]
Unparseable == [kind |-> "unparseable"]
\* Valid JSON that is not an object (a list, a number).
NotObject == [kind |-> "not_object"]
\* A JSON object whose seen_job_ids is not a list of strings.
BadSeen(lp, lu) == [kind |-> "bad_seen", last_page |-> lp, last_url |-> lu]
EmptyDisk == [state |-> NoFile, excel |-> <<>>, profile |-> FALSE]

\* ------------------------------------------------------------ files
\* The record save_state builds (saved_at_sg, a clock reading, is left out).
StateRecord(reason, lp, lu) ==
    [kind |-> "ok", reason |-> reason, last_page |-> lp, last_url |-> lu,
     start_page |-> start_page, end_page |-> end_page,
     seen_job_ids |-> SortedList(seen_job_ids), rows_collected |-> Len(data)]

\* save_state: writes the record; a failure is printed and swallowed, leaving
\* the old file (makedirs/open failed) or a truncated one (the write failed).
save_state(dk, fl, reason, lp, lu) ==
    {[disk |-> [dk EXCEPT !.state = StateRecord(reason, lp, lu)], faults |-> fl]}
    \cup (IF fl < MaxFaults
          THEN {[disk |-> dk, faults |-> fl + 1],
                [disk |-> [dk EXCEPT !.state = Unparseable], faults |-> fl + 1]}
          ELSE {})

\* save_to_excel: nothing when self.data is empty; else the workbook is
\* overwritten with the rows of self.data and the full-description workbook is
\* written after it; a failed write of either re-raises (the second workbook
\* holds the same rows and is not kept as a file of its own).
save_to_excel(dk, fl) ==
    IF data = <<>> THEN {[disk |-> dk, faults |-> fl, raised |-> FALSE]}
    ELSE {[disk |-> [dk EXCEPT !.excel = data], faults |-> fl,
           raised |-> FALSE]}
         \cup (IF fl < MaxFaults
               THEN {[disk |-> dk, faults |-> fl + 1, raised |-> TRUE],
                     [disk |-> [dk EXCEPT !.excel = data], faults |-> fl + 1,
                      raised |-> TRUE]}
               ELSE {})

\* load_state: the fields after the call and its return value. A missing file
\* returns before anything is read; json.load raising (unparseable) or
\* state.get raising (the document is not an object) leaves the fields; an
\* object whose seen_job_ids cannot be made a set (null, a number, a list of
\* lists) makes set(seen) raise after last_page and last_url were assigned.
load_state(file) ==
    IF file.kind = "absent"
    THEN [loaded |-> FALSE, last_page |-> last_page, last_url |-> last_url,
          seen_job_ids |-> seen_job_ids]
    ELSE IF file.kind = "unparseable"
    THEN [loaded |-> FALSE, last_page |-> last_page, last_url |-> last_url,
          seen_job_ids |-> seen_job_ids]
    ELSE IF file.kind = "not_object"
    THEN [loaded |-> FALSE, last_page |-> last_page, last_url |-> last_url,
          seen_job_ids |-> seen_job_ids]
    ELSE IF file.kind = "bad_seen"
    THEN [loaded |-> FALSE, last_page |-> file.last_page, last_url |-> file.last_url,
          seen_job_ids |-> seen_job_ids]
    ELSE [loaded |-> TRUE, last_page |-> file.last_page, last_url |-> file.last_url,
          seen_job_ids |-> SetOfList(file.seen_job_ids)]

\* get_resume_start_page without the range test: any stored integer wins.
get_resume_any_stored_page ==
    IF last_page.tag = "int" THEN last_page.val ELSE start_page

get_resume_start_page ==
    IF last_page.tag = "int" /\ end_page <= last_page.val /\ last_page.val <= start_page
    THEN last_page.val
    ELSE start_page

\* ------------------------------------------------------------ page signals
\* What is_blocked_or_checkpoint reads: the address, the title and one lookup
\* per strong selector; each lookup may raise.
NumSelectors == 7
Signals ==
    [address : {"content", "checkpoint", "raise"},
     title : {"plain", "verification", "raise"},
     markers : [1..NumSelectors -> {"absent", "present", "raise"}]]

is_blocked_or_checkpoint(sig) ==
    IF sig.address = "raise" \/ sig.title = "raise" THEN "raise"
    ELSE IF sig.address = "checkpoint" THEN "True"
    ELSE IF sig.title = "verification" THEN "True"
    ELSE IF \E k \in 1..NumSelectors : sig.markers[k] = "present" THEN "True"
    ELSE "False"

IsBlockedOutcomes == {is_blocked_or_checkpoint(sig) : sig \in Signals}

\* guard_not_blocked raising on a blocked page with nothing exported, saved
\* or notified.
guard_raises_unsaved(b, dk, fl, lu) ==
    IF b = "False" THEN {[out |-> "pass", disk |-> dk, faults |-> fl, last_url |-> lu]}
    ELSE IF b = "raise" THEN {[out |-> "error", disk |-> dk, faults |-> fl, last_url |-> lu]}
    ELSE {[out |-> "RuntimeError", disk |-> dk, faults |-> fl, last_url |-> CurrentUrl]}

\* guard_not_blocked, given the classifier's answer b: passes when not blocked;
\* when blocked it records the address, exports (failure swallowed), saves the
\* state, notifies and raises RuntimeError. A raising lookup (in the classifier,
\* or of the address once blocked) escapes before anything is saved.
guard_not_blocked(b, dk, fl, lu) ==
    IF b = "False" THEN {[out |-> "pass", disk |-> dk, faults |-> fl, last_url |-> lu]}
    ELSE IF b = "raise" THEN {[out |-> "error", disk |-> dk, faults |-> fl, last_url |-> lu]}
    ELSE {[out |-> "error", disk |-> dk, faults |-> fl, last_url |-> lu]}
         \cup {[out |-> "RuntimeError", disk |-> s.disk, faults |-> s.faults,
                last_url |-> CurrentUrl] :
                 s \in UNION {save_state(x.disk, x.faults, "blocked", last_page, CurrentUrl) :
                                x \in save_to_excel(dk, fl)}}

\* safe_get as seen by its callers: it returns, raises RestartSession, or (only
\* from the ready-marker wait) lets a driver exception through.
SafeGetOutcomes(has_marker) ==
    {"ok", "RestartSession"} \cup (IF has_marker THEN {"WebDriverException"} ELSE {})

\* ------------------------------------------------------------ list page
\* The anchors a list page shows: the href (None, a job link, another link)
\* and what reading the card raises (nothing, a stale/no-such-element error,
\* which skips the anchor, or another driver error, which escapes).
NoHref == None
Anchors ==
    [href : {NoHref, OtherUrl} \cup {JobUrl(j) : j \in Jobs},
     err : {"none", "stale", "driver"}]
AnchorLists == UNION {[1..n -> Anchors] : n \in 0..MaxAnchors}

\* get_jobs_from_list_page without the "job_id in self.seen_job_ids" test.
RECURSIVE get_jobs_no_seen_test(_, _, _)
get_jobs_no_seen_test(anchors, items, seen) ==
    IF anchors = <<>> THEN [items |-> items, seen |-> seen, raised |-> FALSE]
    ELSE LET a == Head(anchors)
             job_id == extract_job_id_from_url(a.href)
         IN IF a.err = "driver" THEN [items |-> items, seen |-> seen, raised |-> TRUE]
            ELSE IF a.href = None \/ job_id = Unknown \/ a.err = "stale"
                 THEN get_jobs_no_seen_test(Tail(anchors), items, seen)
            ELSE get_jobs_no_seen_test(Tail(anchors),
                     Append(items, [url |-> a.href, job_id |-> job_id]),
                     seen \cup {job_id})

\* The loop of get_jobs_from_list_page over the anchors, from the items and the
\* seen set built so far.
RECURSIVE get_jobs_from_list_page(_, _, _)
get_jobs_from_list_page(anchors, items, seen) ==
    IF anchors = <<>> THEN [items |-> items, seen |-> seen, raised |-> FALSE]
    ELSE LET a == Head(anchors)
             job_id == extract_job_id_from_url(a.href)
         IN IF a.err = "driver" THEN [items |-> items, seen |-> seen, raised |-> TRUE]
            ELSE IF a.href = NoHref THEN get_jobs_from_list_page(Tail(anchors), items, seen)
            ELSE IF job_id = Unknown \/ job_id \in seen
                 THEN get_jobs_from_list_page(Tail(anchors), items, seen)
            ELSE IF a.err = "stale" THEN get_jobs_from_list_page(Tail(anchors), items, seen)
            ELSE get_jobs_from_list_page(Tail(anchors),
                     Append(items, [url |-> a.href, job_id |-> job_id]),
                     seen \cup {job_id})

\* The job ids get_jobs_from_list_page read off the anchors of a page (an
\* anchor whose card raised is not counted).
AnchorIds(anchors) ==
    {extract_job_id_from_url(anchors[k].href) :
        k \in {n \in 1..Len(anchors) : anchors[n].err = "none"}} \ {Unknown}

\* ------------------------------------------------------------ session steps
\* manual_login, from what safe_get did (sg), what the wait for the list did
\* after ENTER (w), the classifier's answer (b1) and the guard's outcome (g).
manual_login(sg, w, b1, g) ==
    IF sg # "ok" THEN sg
    ELSE IF w = "found" THEN "ok"
    ELSE IF w = "WebDriverException" THEN "Exception"
    ELSE IF b1 = "raise" THEN "Exception"
    ELSE IF b1 = "False" THEN "Exception"
    ELSE IF g = "pass" THEN "ok"
    ELSE IF g = "error" THEN "Exception"
    ELSE "RuntimeError"

\* profile_healthy: safe_get of the feed and the classifier, any exception is False.
profile_healthy(sg, b) == sg = "ok" /\ b = "False"

\* scrape_job_details up to the row: safe_get, the guard, then the field reads.
scrape_job_details(sg, g, reads) ==
    IF sg # "ok" THEN sg
    ELSE IF g = "error" THEN "Exception"
    ELSE IF g = "RuntimeError" THEN "RuntimeError"
    ELSE IF reads = "raise" THEN "Exception"
    ELSE "row"

\* No call of safe_get is in progress.
NavIdle ==
    /\ sg_pc = "idle" /\ sg_context = "None" /\ sg_polls = 0 /\ sg_exc = "None"
    /\ sg_failed = FALSE /\ responsive = TRUE /\ readyState = "loading"
    /\ has_loader = FALSE /\ sg_refreshes = 0 /\ sg_wait = "None"

\* No call of is_blocked_or_checkpoint is in progress: an ordinary content page.
ClsIdle ==
    /\ signals = [address |-> "content", title |-> "plain",
                  markers |-> [k \in 1..NumSelectors |-> "absent"]]
    /\ blocked = "None" /\ list_wait = "None"

\* ------------------------------------------------------------ run()
\* The state __init__ leaves, with run() about to enter its loop.
Constructed ==
    /\ data = <<>> /\ seen_job_ids = {} /\ last_page = None /\ last_url = None
    /\ profile_poison_strikes = 0 /\ driver = "None"
    /\ pc = "load_state" /\ restarts = 0 /\ page_num = 0 /\ jobs = <<>> /\ i = 0
    /\ exc = "None" /\ exit = "None" /\ prev_exc = "None"
    /\ live = 0 /\ notice = "None" /\ outcome = "running"
    /\ encountered = {} /\ expSince = FALSE /\ saveSince = FALSE

Init ==
    /\ start_page \in Pages /\ end_page \in Pages
    /\ Constructed
    /\ disk = EmptyDisk
    /\ runs = 0 /\ faults = 0 /\ itemFailed = FALSE
    /\ resumed = [exported |-> {}, mid_items |-> FALSE]
    /\ acquisitions = 0
    /\ NavIdle /\ ClsIdle

\* An exception of class kind leaves the try body for its handler.
Throw(kind) ==
    /\ pc' = "except_" \o kind
    /\ exc' = kind
    /\ jobs' = <<>> /\ i' = 0

\* The positions inside the try body of run().
TryBody ==
    {"load_state", "setup_driver", "manual_login", "health", "scrape_page", "sp_guard",
     "sp_scroll", "sp_extract", "item_fetch", "item_save", "sp_export",
     "final_export", "final_save"}

\* self.load_state() at the top of every loop iteration.
LoadState ==
    /\ UNCHANGED <<side_vars, acquisitions>>
    /\ prev_exc' = prev_exc
    /\ pc = "load_state"
    /\ LET r == load_state(disk.state)
       IN /\ last_page' = r.last_page
          /\ last_url' = r.last_url
          /\ seen_job_ids' = r.seen_job_ids
    /\ pc' = "setup_driver"
    /\ UNCHANGED <<start_page, end_page, data, profile_poison_strikes, driver,
                   restarts, page_num, jobs, i, exc, exit, env_vars, aux_vars, obs_vars>> /\ notice' = "None"

\* setup_driver: webdriver.Chrome(...) bound to the profile folder, then the
\* timeouts; either call may raise.
SetupDriver ==
    /\ UNCHANGED side_vars
    /\ acquisitions' = acquisitions + 1
    /\ prev_exc' = prev_exc
    /\ pc = "setup_driver"
    /\ \/ /\ driver' = "live" /\ live' = live + 1
          /\ disk' = [disk EXCEPT !.profile = TRUE]
          /\ pc' = "manual_login"
          /\ UNCHANGED <<exc, jobs, i, expSince, saveSince>>
       \/ /\ Throw("Exception") /\ expSince' = FALSE /\ saveSince' = FALSE
          /\ UNCHANGED <<driver, live, disk>>
       \/ /\ driver' = "live" /\ live' = live + 1
          /\ disk' = [disk EXCEPT !.profile = TRUE]
          /\ Throw("Exception") /\ expSince' = FALSE /\ saveSince' = FALSE
    /\ UNCHANGED <<start_page, end_page, data, seen_job_ids, last_page, last_url,
                   profile_poison_strikes, restarts, page_num, exit, aux_vars,
                   encountered, itemFailed>> /\ notice' = "None"

ManualLogin ==
    /\ UNCHANGED <<side_vars, acquisitions>>
    /\ prev_exc' = prev_exc
    /\ pc = "manual_login"
    /\ \E sg \in SafeGetOutcomes(FALSE), w \in {"found", "TimeoutException", "WebDriverException"},
          b1 \in IsBlockedOutcomes, b2 \in IsBlockedOutcomes :
         \E g \in guard_not_blocked(b2, disk, faults, last_url) :
            LET r == manual_login(sg, w, b1, g.out)
            IN \/ /\ r = "ok"
                  /\ pc' = "health"
                  /\ UNCHANGED <<exc, jobs, i, disk, faults, last_url, expSince, saveSince>> /\ notice' = "None"
               \/ /\ r \in {"RestartSession", "Exception"}
                  /\ Throw(r) /\ expSince' = FALSE /\ saveSince' = FALSE
                  /\ UNCHANGED <<disk, faults, last_url>> /\ notice' = "None"
               \/ /\ r = "RuntimeError"
                  /\ Throw(r) /\ expSince' = TRUE /\ saveSince' = TRUE
                  /\ disk' = g.disk /\ faults' = g.faults /\ last_url' = g.last_url
                  /\ notice' = "login needed"
    /\ UNCHANGED <<start_page, end_page, data, seen_job_ids, last_page,
                   profile_poison_strikes, driver, restarts, page_num, exit, live,
                   runs, outcome, resumed, encountered, itemFailed>>

\* The health check, the strike counter and the start of the page loop:
\* for page_num in range(resume_from, end_page - 1, -1).
Health ==
    /\ UNCHANGED <<side_vars, acquisitions>>
    /\ prev_exc' = prev_exc
    /\ pc = "health"
    /\ \E sg \in SafeGetOutcomes(TRUE), b \in IsBlockedOutcomes :
         IF profile_healthy(sg, b)
         THEN /\ profile_poison_strikes' = 0
              /\ IF get_resume_start_page >= end_page
                 THEN page_num' = get_resume_start_page /\ pc' = "scrape_page"
                 ELSE page_num' = page_num /\ pc' = "final_export"
              /\ UNCHANGED <<exc, jobs, i, expSince, saveSince>>
         ELSE /\ profile_poison_strikes' = profile_poison_strikes + 1
              /\ Throw("RestartSession") /\ expSince' = FALSE /\ saveSince' = FALSE
              /\ UNCHANGED page_num
    /\ UNCHANGED <<start_page, end_page, data, seen_job_ids, last_page, last_url,
                   driver, restarts, exit, env_vars, aux_vars,
                   encountered, itemFailed>> /\ notice' = "None"

\* ------------------------------------------------------------ scrape_page
\* The page loop of run() after scrape_page(page_num) returned.
NextPage ==
    /\ jobs' = <<>> /\ i' = 0
    /\ IF page_num - 1 >= end_page
       THEN page_num' = page_num - 1 /\ pc' = "scrape_page"
       ELSE page_num' = page_num /\ pc' = "final_export"

\* safe_get of the list page, then last_page/last_url and the "entered page"
\* checkpoint.
ScrapePageEnter ==
    /\ UNCHANGED <<side_vars, acquisitions>>
    /\ prev_exc' = prev_exc
    /\ pc = "scrape_page"
    /\ \E sg \in SafeGetOutcomes(TRUE) :
         \/ /\ sg = "ok"
            /\ last_page' = IntV(page_num)
            /\ last_url' = get_page_url(page_num)
            /\ \E s \in save_state(disk, faults, "entered", IntV(page_num),
                                   get_page_url(page_num)) :
                 disk' = s.disk /\ faults' = s.faults
            /\ pc' = "sp_guard"
            /\ UNCHANGED <<exc, jobs, i, expSince, saveSince>>
         \/ /\ sg # "ok"
            /\ Throw(IF sg = "RestartSession" THEN sg ELSE "Exception")
            /\ expSince' = FALSE /\ saveSince' = FALSE
            /\ UNCHANGED <<last_page, last_url, disk, faults>>
    /\ UNCHANGED <<start_page, end_page, data, seen_job_ids,
                   profile_poison_strikes, driver, restarts, page_num, exit, live,
                   runs, outcome, resumed, encountered, itemFailed>> /\ notice' = "None"

\* A guard_not_blocked call of scrape_page that did not pass.
GuardFails(g) ==
    \/ /\ g.out = "error"
       /\ Throw("Exception") /\ expSince' = FALSE /\ saveSince' = FALSE
       /\ UNCHANGED <<disk, faults, last_url>> /\ notice' = "None"
    \/ /\ g.out = "RuntimeError"
       /\ Throw("RuntimeError") /\ expSince' = TRUE /\ saveSince' = TRUE
       /\ disk' = g.disk /\ faults' = g.faults /\ last_url' = g.last_url
       /\ notice' = "login needed"

\* The guard after navigation and the wait for the list: a TimeoutException
\* makes scrape_page return, any other driver error escapes.
SpGuard ==
    /\ UNCHANGED <<side_vars, acquisitions>>
    /\ prev_exc' = prev_exc
    /\ pc = "sp_guard"
    /\ \E b \in IsBlockedOutcomes, w \in {"found", "TimeoutException", "WebDriverException"} :
         \E g \in guard_not_blocked(b, disk, faults, last_url) :
            \/ /\ GuardFails(g) /\ UNCHANGED page_num
            \/ /\ g.out = "pass" /\ w = "found"
               /\ pc' = "sp_scroll"
               /\ UNCHANGED <<exc, jobs, i, page_num, expSince, saveSince, disk, faults,
                   last_url>> /\ notice' = "None"
            \/ /\ g.out = "pass" /\ w = "TimeoutException"
               /\ NextPage
               /\ UNCHANGED <<exc, expSince, saveSince, disk, faults, last_url>> /\ notice' = "None"
            \/ /\ g.out = "pass" /\ w = "WebDriverException"
               /\ Throw("Exception") /\ expSince' = FALSE /\ saveSince' = FALSE
               /\ UNCHANGED <<page_num, disk, faults, last_url>> /\ notice' = "None"
    /\ UNCHANGED <<start_page, end_page, data, seen_job_ids, last_page,
                   profile_poison_strikes, driver, restarts, exit, live,
                   runs, outcome, resumed, encountered, itemFailed>>

\* The four scrollBy calls, the guard after them and scrollTo(0, 0): a script
\* call may raise.
SpScroll ==
    /\ UNCHANGED <<side_vars, acquisitions>>
    /\ prev_exc' = prev_exc
    /\ pc = "sp_scroll"
    /\ \E b \in IsBlockedOutcomes, script \in {"ok", "raise"} :
         \E g \in guard_not_blocked(b, disk, faults, last_url) :
            \/ /\ script = "raise"
               /\ Throw("Exception") /\ expSince' = FALSE /\ saveSince' = FALSE
               /\ UNCHANGED <<disk, faults, last_url>> /\ notice' = "None"
            \/ /\ script = "ok" /\ GuardFails(g)
            \/ /\ script = "ok" /\ g.out = "pass"
               /\ pc' = "sp_extract"
               /\ UNCHANGED <<exc, jobs, i, expSince, saveSince, disk, faults, last_url>> /\ notice' = "None"
    /\ UNCHANGED <<start_page, end_page, data, seen_job_ids, last_page,
                   profile_poison_strikes, driver, restarts, page_num, exit, live,
                   runs, outcome, resumed, encountered, itemFailed>>

\* jobs = self.get_jobs_from_list_page(): the wait for the list (a timeout is
\* not caught here), find_elements, and the loop over the anchors.
SpExtract ==
    /\ UNCHANGED <<side_vars, acquisitions>>
    /\ prev_exc' = prev_exc
    /\ pc = "sp_extract"
    /\ \/ /\ Throw("Exception") /\ expSince' = FALSE /\ saveSince' = FALSE
          /\ UNCHANGED <<seen_job_ids, encountered>>
       \/ \E anchors \in AnchorLists :
            LET r == get_jobs_from_list_page(anchors, <<>>, seen_job_ids)
            IN /\ seen_job_ids' = r.seen
               /\ encountered' = encountered \cup AnchorIds(anchors)
               /\ IF r.raised
                  THEN Throw("Exception") /\ expSince' = FALSE /\ saveSince' = FALSE
                  ELSE /\ jobs' = r.items
                       /\ i' = IF r.items = <<>> THEN 0 ELSE 1
                       /\ pc' = IF r.items = <<>> THEN "sp_export" ELSE "item_fetch"
                       /\ UNCHANGED <<exc, expSince, saveSince>>
    /\ UNCHANGED <<start_page, end_page, data, last_page, last_url,
                   profile_poison_strikes, driver, restarts, page_num, exit,
                   env_vars, aux_vars, itemFailed>> /\ notice' = "None"

\* The item loop giving up the rest of the page after one job.
NextItemSkipsRest ==
    /\ jobs' = jobs /\ i' = i /\ pc' = "sp_export"

\* The item loop moves to the next job, or to the export after the last one.
NextItem ==
    /\ jobs' = jobs
    /\ IF i < Len(jobs) THEN i' = i + 1 /\ pc' = "item_fetch"
       ELSE i' = i /\ pc' = "sp_export"

\* row = self.scrape_job_details(job); row["Page Number"] = page_num;
\* self.data.append(row). Every Exception raised on the way is caught by the
\* item's handler, which prints it and goes on with the next job. A blocked
\* page found by save_as_pdf is swallowed there and the row is still returned.
ItemFetch ==
    /\ UNCHANGED <<side_vars, acquisitions>>
    /\ prev_exc' = prev_exc
    /\ pc = "item_fetch"
    /\ \E sg \in SafeGetOutcomes(TRUE), b \in IsBlockedOutcomes, reads \in {"ok", "raise"},
          pdf \in BOOLEAN, b2 \in IsBlockedOutcomes :
         \E g \in guard_not_blocked(b, disk, faults, last_url) :
            LET r == scrape_job_details(sg, g.out, reads)
            IN \/ /\ r = "row"
                  /\ \E g2 \in guard_not_blocked(b2, disk, faults, last_url) :
                       IF pdf /\ g2.out = "RuntimeError"
                       THEN /\ disk' = g2.disk /\ faults' = g2.faults
                            /\ last_url' = g2.last_url /\ notice' = "login needed"
                       ELSE UNCHANGED <<disk, faults, last_url>> /\ notice' = "None"
                  /\ data' = Append(data, [job_id |-> jobs[i].job_id, url |-> jobs[i].url,
                                           page |-> page_num])
                  /\ pc' = "item_save"
                  /\ UNCHANGED <<jobs, i, itemFailed>>
               \/ /\ r \in {"RestartSession", "WebDriverException", "Exception"}
                  /\ itemFailed' = TRUE
                  /\ NextItem
                  /\ UNCHANGED <<data, disk, faults, last_url>> /\ notice' = "None"
               \/ /\ r = "RuntimeError"
                  /\ itemFailed' = TRUE
                  /\ NextItem
                  /\ disk' = g.disk /\ faults' = g.faults /\ last_url' = g.last_url
                  /\ notice' = "login needed"
                  /\ UNCHANGED data
    /\ UNCHANGED <<start_page, end_page, seen_job_ids, last_page,
                   profile_poison_strikes, driver, restarts, page_num, exc, exit, live,
                   runs, outcome, resumed, encountered,  expSince, saveSince>>

\* self.last_url = job.url; self.save_state("scraped job ..."), then the next job.
ItemSave ==
    /\ UNCHANGED <<side_vars, acquisitions>>
    /\ prev_exc' = prev_exc
    /\ pc = "item_save"
    /\ last_url' = jobs[i].url
    /\ \E s \in save_state(disk, faults, "scraped", last_page, jobs[i].url) :
         disk' = s.disk /\ faults' = s.faults
    /\ NextItem
    /\ UNCHANGED <<start_page, end_page, data, seen_job_ids, last_page,
                   profile_poison_strikes, driver, restarts, page_num, exc, exit,
                   live, runs, outcome, resumed, obs_vars>> /\ notice' = "None"

\* self.save_to_excel() at the end of scrape_page; a failed write escapes.
SpExport ==
    /\ UNCHANGED <<side_vars, acquisitions>>
    /\ prev_exc' = prev_exc
    /\ pc = "sp_export"
    /\ \E x \in save_to_excel(disk, faults) :
         /\ disk' = x.disk /\ faults' = x.faults
         /\ IF x.raised
            THEN Throw("Exception") /\ expSince' = FALSE /\ saveSince' = FALSE
                 /\ UNCHANGED page_num
            ELSE NextPage /\ UNCHANGED <<exc, expSince, saveSince>>
    /\ UNCHANGED <<self_vars, restarts, exit, live, runs, outcome, resumed, encountered,
                   itemFailed>> /\ notice' = "None"

\* ------------------------------------------------------------ end of the try body
\* self.save_to_excel() after the last page; a failed write escapes.
FinalExport ==
    /\ UNCHANGED <<side_vars, acquisitions>>
    /\ prev_exc' = prev_exc
    /\ pc = "final_export"
    /\ \E x \in save_to_excel(disk, faults) :
         /\ disk' = x.disk /\ faults' = x.faults
         /\ IF x.raised
            THEN Throw("Exception") /\ expSince' = FALSE /\ saveSince' = FALSE
            ELSE pc' = "final_save" /\ UNCHANGED <<exc, jobs, i, expSince, saveSince>>
    /\ UNCHANGED <<self_vars, restarts, page_num, exit, live, runs, outcome, resumed,
                   encountered, itemFailed>> /\ notice' = "None"

\* self.save_state(reason="completed"); return.
FinalSave ==
    /\ UNCHANGED <<side_vars, acquisitions>>
    /\ prev_exc' = prev_exc
    /\ pc = "final_save"
    /\ \E s \in save_state(disk, faults, "completed", last_page, last_url) :
         disk' = s.disk /\ faults' = s.faults
    /\ pc' = "finally" /\ exit' = "return" /\ outcome' = "completed"
    /\ UNCHANGED <<self_vars, restarts, page_num, jobs, i, exc, live, runs, resumed,
                   obs_vars>> /\ notice' = "None"

\* ------------------------------------------------------------ handlers
\* The quit that leaves the session running.
quit_leaves_session(d, l) == [driver |-> d, live |-> l]

\* driver.quit() guarded by "if self.driver": the session ends if it is live;
\* on a session already quit the call fails and the failure is swallowed.
quit_if_driver(d, l) ==
    IF d = "live" THEN [driver |-> "quit", live |-> l - 1]
    ELSE [driver |-> d, live |-> l]

\* The budget test allowing one restart more: restarts > MAX_RESTARTS + 1.
BudgetExhaustedLate(r) == r > MAX_RESTARTS + 1

\* The budget test off by one: restarts >= MAX_RESTARTS.
BudgetExhaustedEarly(r) == r >= MAX_RESTARTS

\* restarts > MAX_RESTARTS, after the increment.
BudgetExhausted(r) == r > MAX_RESTARTS

\* The tier test that never reaches the profile reset.
ReuseProfileAlways(strikes) == TRUE

\* The tier test with the profile reset on the first strike already.
ReuseProfileNever(strikes) == strikes <= 0

\* The tier the RestartSession handler picks: reuse while strikes <= 1.
ReuseProfile(strikes) == strikes <= 1

\* except KeyboardInterrupt: export, state save, return. The export is not
\* protected: a failed write leaves run() as an exception.
ExceptKeyboardInterrupt ==
    /\ UNCHANGED <<side_vars, acquisitions>>
    /\ prev_exc' = prev_exc
    /\ pc = "except_KeyboardInterrupt"
    /\ \E x \in save_to_excel(disk, faults) :
         IF x.raised
         THEN /\ disk' = x.disk /\ faults' = x.faults
              /\ exit' = "raise" /\ outcome' = "raised"
              /\ expSince' = TRUE /\ UNCHANGED saveSince
         ELSE /\ \E s \in save_state(x.disk, x.faults, "keyboard_interrupt",
                                     last_page, last_url) :
                   disk' = s.disk /\ faults' = s.faults
              /\ exit' = "return" /\ outcome' = "interrupted"
              /\ expSince' = TRUE /\ saveSince' = TRUE
    /\ pc' = "finally"
    /\ UNCHANGED <<self_vars, restarts, page_num, jobs, i, exc, live, runs, resumed,
                   encountered, itemFailed>> /\ notice' = "None"

\* except RuntimeError (raised by guard_not_blocked): state save, count the
\* restart, give up over budget, else quit the driver and continue.
ExceptRuntimeError ==
    /\ UNCHANGED <<side_vars, acquisitions>>
    /\ prev_exc' = prev_exc
    /\ pc = "except_RuntimeError"
    /\ \E s \in save_state(disk, faults, "runtime_error", last_page, last_url) :
         disk' = s.disk /\ faults' = s.faults
    /\ saveSince' = TRUE
    /\ restarts' = restarts + 1
    /\ IF BudgetExhausted(restarts + 1)
       THEN /\ exit' = "return" /\ outcome' = "too_many_restarts"
            /\ UNCHANGED <<driver, live>>
       ELSE /\ exit' = "continue" /\ UNCHANGED outcome
            /\ driver' = quit_if_driver(driver, live).driver
            /\ live' = quit_if_driver(driver, live).live
    /\ pc' = "finally"
    /\ UNCHANGED <<start_page, end_page, data, seen_job_ids, last_page, last_url,
                   profile_poison_strikes, page_num, jobs, i, exc, runs, resumed,
                   encountered, itemFailed,  expSince>> /\ notice' = "None"

\* restart_browser_session: export (failure swallowed), state save, notify,
\* quit the driver and drop it.
restart_browser_session(dk, fl) ==
    UNION {save_state(x.disk, x.faults, "restart_session", last_page, last_url) :
             x \in save_to_excel(dk, fl)}

\* except RestartSession: count the restart; over budget save the state and
\* return; with strikes <= 1 restart the session on the same profile; else
\* reset_profile (quit, drop the driver, delete the folder), clear the strikes
\* and notify.
ExceptRestartSession ==
    /\ UNCHANGED <<side_vars, acquisitions>>
    /\ prev_exc' = prev_exc
    /\ pc = "except_RestartSession"
    /\ restarts' = restarts + 1
    /\ IF BudgetExhausted(restarts + 1)
       THEN /\ \E s \in save_state(disk, faults, "too_many_restarts", last_page, last_url) :
                 disk' = s.disk /\ faults' = s.faults
            /\ saveSince' = TRUE
            /\ exit' = "return" /\ outcome' = "too_many_restarts"
            /\ UNCHANGED <<driver, live, profile_poison_strikes, expSince>> /\ notice' = "None"
       ELSE IF ReuseProfile(profile_poison_strikes)
       THEN /\ \E s \in restart_browser_session(disk, faults) :
                 disk' = s.disk /\ faults' = s.faults
            /\ expSince' = TRUE /\ saveSince' = TRUE
            /\ notice' = "session restarted"
            /\ driver' = "None" /\ live' = quit_if_driver(driver, live).live
            /\ exit' = "continue"
            /\ UNCHANGED <<profile_poison_strikes, outcome>>
       ELSE /\ driver' = "None" /\ live' = quit_if_driver(driver, live).live
            /\ disk' = [disk EXCEPT !.profile = FALSE]
            /\ profile_poison_strikes' = 0
            /\ notice' = "profile reset"
            /\ exit' = "continue"
            /\ UNCHANGED <<faults, outcome, expSince, saveSince>>
    /\ pc' = "finally"
    /\ UNCHANGED <<start_page, end_page, data, seen_job_ids, last_page, last_url,
                   page_num, jobs, i, exc, runs, resumed,
                   encountered, itemFailed>>

\* The Exception handler swallowing the failure and going round the loop again.
ExceptExceptionSwallows ==
    /\ UNCHANGED <<side_vars, acquisitions>>
    /\ prev_exc' = prev_exc
    /\ pc = "except_Exception"
    /\ \E x \in save_to_excel(disk, faults) :
         \E s \in save_state(x.disk, x.faults, "unexpected_error", last_page, last_url) :
            disk' = s.disk /\ faults' = s.faults
    /\ expSince' = TRUE /\ saveSince' = TRUE
    /\ exit' = "continue" /\ outcome' = outcome
    /\ pc' = "finally"
    /\ UNCHANGED <<self_vars, restarts, page_num, jobs, i, exc, live, runs, resumed,
                   encountered, itemFailed>> /\ notice' = "None"

\* except Exception: export (failure swallowed), state save, re-raise.
ExceptException ==
    /\ UNCHANGED <<side_vars, acquisitions>>
    /\ prev_exc' = prev_exc
    /\ pc = "except_Exception"
    /\ \E x \in save_to_excel(disk, faults) :
         \E s \in save_state(x.disk, x.faults, "unexpected_error", last_page, last_url) :
            disk' = s.disk /\ faults' = s.faults
    /\ expSince' = TRUE /\ saveSince' = TRUE
    /\ exit' = "raise" /\ outcome' = "raised"
    /\ pc' = "finally"
    /\ UNCHANGED <<self_vars, restarts, page_num, jobs, i, exc, live, runs, resumed,
                   encountered, itemFailed>> /\ notice' = "None"

\* The finally block dropping the driver without quitting it.
FinallyWithoutQuit ==
    /\ UNCHANGED <<side_vars, acquisitions>>
    /\ pc = "finally"
    /\ driver' = "None"
    /\ live' = live
    /\ IF exit = "continue"
       THEN /\ pc' = "load_state" /\ exc' = "None" /\ exit' = "None" /\ page_num' = 0
            /\ prev_exc' = exc
       ELSE pc' = "done" /\ UNCHANGED <<exc, exit, page_num, prev_exc>>
    /\ UNCHANGED <<start_page, end_page, data, seen_job_ids, last_page, last_url,
                   profile_poison_strikes, restarts, jobs, i, disk, aux_vars,
                   obs_vars>> /\ notice' = "None"

\* The finally block sending a retry back to the login prompt, with no
\* load_state and no setup_driver.
FinallyRetriesLogin ==
    /\ UNCHANGED <<side_vars, acquisitions>>
    /\ pc = "finally"
    /\ driver' = "None"
    /\ live' = quit_if_driver(driver, live).live
    /\ IF exit = "continue"
       THEN /\ pc' = "manual_login" /\ exc' = "None" /\ exit' = "None" /\ page_num' = 0
            /\ prev_exc' = exc
       ELSE pc' = "done" /\ UNCHANGED <<exc, exit, page_num, prev_exc>>
    /\ UNCHANGED <<start_page, end_page, data, seen_job_ids, last_page, last_url,
                   profile_poison_strikes, restarts, jobs, i, disk, aux_vars,
                   obs_vars>> /\ notice' = "None"

\* finally: quit the driver if there is one, drop it; then the loop continues,
\* or run() returns or re-raises.
Finally ==
    /\ UNCHANGED <<side_vars, acquisitions>>
    /\ pc = "finally"
    /\ driver' = "None"
    /\ live' = quit_if_driver(driver, live).live
    /\ IF exit = "continue"
       THEN /\ pc' = "load_state" /\ exc' = "None" /\ exit' = "None" /\ page_num' = 0
            /\ prev_exc' = exc
       ELSE pc' = "done" /\ UNCHANGED <<exc, exit, page_num, prev_exc>>
    /\ UNCHANGED <<start_page, end_page, data, seen_job_ids, last_page, last_url,
                   profile_poison_strikes, restarts, jobs, i, disk, aux_vars,
                   obs_vars>> /\ notice' = "None"

\* ------------------------------------------------------------ environment
\* Ctrl-C while the try body runs.
Interrupt ==
    /\ UNCHANGED <<side_vars, acquisitions>>
    /\ prev_exc' = prev_exc
    /\ pc \in TryBody
    /\ Throw("KeyboardInterrupt") /\ expSince' = FALSE /\ saveSince' = FALSE
    /\ UNCHANGED <<self_vars, restarts, page_num, exit, env_vars, aux_vars,
                   encountered, itemFailed>> /\ notice' = "None"

\* The process ends (killed at any point, or after run() is over) and the
\* script is started again: a new object, the files as they were left.
ProcessRestart ==
    /\ UNCHANGED side_vars
    /\ acquisitions' = 0
    /\ runs < MaxReruns
    /\ runs' = runs + 1
    /\ resumed' = [exported |-> JobIds(disk.excel),
                    mid_items |-> pc \in {"item_fetch", "item_save"}]
    /\ data' = <<>> /\ seen_job_ids' = {} /\ last_page' = None /\ last_url' = None
    /\ profile_poison_strikes' = 0 /\ driver' = "None"
    /\ pc' = "load_state" /\ restarts' = 0 /\ page_num' = 0 /\ jobs' = <<>> /\ i' = 0
    /\ exc' = "None" /\ exit' = "None" /\ prev_exc' = "None"
    /\ live' = 0 /\ notice' = "None" /\ outcome' = "running"
    /\ encountered' = {} /\ expSince' = FALSE /\ saveSince' = FALSE
    /\ UNCHANGED <<start_page, end_page, disk, faults, itemFailed>>

Next ==
    \/ LoadState \/ SetupDriver \/ ManualLogin \/ Health
    \/ ScrapePageEnter \/ SpGuard \/ SpScroll \/ SpExtract
    \/ ItemFetch \/ ItemSave \/ SpExport \/ FinalExport \/ FinalSave
    \/ ExceptKeyboardInterrupt \/ ExceptRuntimeError \/ ExceptRestartSession
    \/ ExceptException \/ Finally
    \/ Interrupt \/ ProcessRestart

Spec == Init /\ [][Next]_vars

\* One call of run() in one process: every step of the program and the
\* operator's Ctrl-C, each wait and each login prompt eventually over.
NextRun ==
    \/ LoadState \/ SetupDriver \/ ManualLogin \/ Health
    \/ ScrapePageEnter \/ SpGuard \/ SpScroll \/ SpExtract
    \/ ItemFetch \/ ItemSave \/ SpExport \/ FinalExport \/ FinalSave
    \/ ExceptKeyboardInterrupt \/ ExceptRuntimeError \/ ExceptRestartSession
    \/ ExceptException \/ Finally
    \/ Interrupt

SpecRun == Init /\ [][NextRun]_vars /\ WF_vars(NextRun)

\* One call of run() in an environment that may fail MaxRunFaults writes:
\* faults counts up to MaxFaults, so the count starts that much lower.
InitFaulty ==
    /\ start_page \in Pages /\ end_page \in Pages
    /\ Constructed
    /\ disk = EmptyDisk
    /\ runs = 0 /\ faults = MaxFaults - MaxRunFaults /\ itemFailed = FALSE
    /\ resumed = [exported |-> {}, mid_items |-> FALSE]
    /\ acquisitions = 0
    /\ NavIdle /\ ClsIdle

SpecFaulty == InitFaulty /\ [][NextRun]_vars

\* ------------------------------------------------------------ safe_get
\* The call sites of safe_get (manual_login, profile_healthy, scrape_page,
\* scrape_job_details); all but manual_login pass a post_wait_xpath.
Contexts == {"manual_login", "profile_healthy", "scrape_page", "scrape_job_details"}
post_wait_xpath(context) == context # "manual_login"

\* The classes safe_get expects of a driver call on a session that hangs.
DriverErrors == {"ReadTimeoutError", "TimeoutError", "WebDriverException"}

ReadyStates == {"loading", "interactive", "complete"}

\* _dom_ready, from the readyState the script returned.
dom_ready(state) == state \in {"complete", "interactive"}

\* _page_seems_stuck without the test for a loader.
page_seems_stuck_ignores_loader(h, state, loader) ==
    IF h # 0 THEN TRUE ELSE ~dom_ready(state)

\* _page_seems_stuck, from its two script calls: h is the call that raised
\* (0: none), state and loader are what they returned. Any exception is True.
page_seems_stuck(h, state, loader) ==
    IF h # 0 THEN TRUE ELSE ~dom_ready(state) /\ loader

\* Of n driver calls in a row, the first one the session fails to answer
\* (0: it answers all). A session that stopped answering stays so.
Hangs(n) == IF responsive THEN 0..n ELSE {1}

\* What the browser shows after the calls of _page_seems_stuck, the first
\* failing at h.
Observe(h, state, loader) ==
    /\ sg_failed' = (sg_failed \/ h # 0)
    /\ responsive' = (h = 0)
    /\ readyState' = IF h = 1 THEN readyState ELSE state
    /\ has_loader' = IF h = 0 THEN loader ELSE has_loader

\* A driver call that raised.
DriverCallFailed ==
    /\ sg_failed' = TRUE /\ responsive' = FALSE
    /\ UNCHANGED <<readyState, has_loader>>

\* Where safe_get goes once the page is taken as loaded: the ready-marker
\* wait when a post_wait_xpath was passed, else it returns.
AfterReady == IF post_wait_xpath(sg_context) THEN "marker" ELSE "returned"

\* A caller enters safe_get; after a raise run() has built a new session.
SgCall ==
    /\ sg_pc \in {"idle", "returned", "raised"}
    /\ \E c \in Contexts : sg_context' = c
    /\ sg_pc' = "get" /\ sg_exc' = "None" /\ sg_failed' = FALSE /\ sg_polls' = 0
    /\ responsive' = IF sg_pc = "returned" THEN responsive ELSE TRUE
    /\ sg_refreshes' = 0 /\ sg_wait' = "None"
    /\ UNCHANGED <<readyState, has_loader, main_vars, cls_vars>>

\* self.driver.get(url)
SgGet ==
    /\ sg_pc = "get"
    /\ \E h \in Hangs(1), s \in ReadyStates, l \in BOOLEAN :
         IF h = 0
         THEN /\ sg_pc' = "poll" /\ sg_polls' = MaxPolls
              /\ readyState' = s /\ has_loader' = l
              /\ UNCHANGED <<sg_exc, sg_failed, responsive>>
         ELSE /\ sg_pc' = "raised" /\ sg_exc' = "RestartSession"
              /\ DriverCallFailed /\ UNCHANGED sg_polls
    /\ UNCHANGED <<sg_context, sg_refreshes, sg_wait, main_vars, cls_vars>>

\* One iteration of the wait for DOM readiness (or its time is up).
SgPoll ==
    /\ sg_pc = "poll"
    /\ IF sg_polls = 0
       THEN /\ sg_pc' = "stuck"
            /\ UNCHANGED <<sg_polls, sg_exc, sg_failed, responsive, readyState, has_loader>>
       ELSE \E h \in Hangs(1), s \in ReadyStates :
              IF h # 0
              THEN /\ sg_pc' = "raised" /\ sg_exc' = "RestartSession"
                   /\ DriverCallFailed /\ UNCHANGED sg_polls
              ELSE /\ readyState' = s
                   /\ IF dom_ready(s)
                      THEN sg_pc' = "stuck" /\ UNCHANGED sg_polls
                      ELSE sg_pc' = "poll" /\ sg_polls' = sg_polls - 1
                   /\ UNCHANGED <<sg_exc, sg_failed, responsive, has_loader>>
    /\ UNCHANGED <<sg_context, sg_refreshes, sg_wait, main_vars, cls_vars>>

\* if self._page_seems_stuck(): attempt one refresh.
SgStuck ==
    /\ sg_pc = "stuck"
    /\ \E h \in Hangs(2), s \in ReadyStates, l \in BOOLEAN :
         /\ Observe(h, s, l)
         /\ sg_pc' = IF page_seems_stuck(h, s, l) THEN "refresh" ELSE AfterReady
    /\ UNCHANGED <<sg_context, sg_polls, sg_exc, sg_refreshes, sg_wait, main_vars, cls_vars>>

\* self.driver.refresh()
SgRefresh ==
    /\ sg_pc = "refresh"
    /\ \E h \in Hangs(1), s \in ReadyStates, l \in BOOLEAN :
         IF h = 0
         THEN /\ sg_pc' = "repoll" /\ sg_polls' = MaxPolls
              /\ readyState' = s /\ has_loader' = l
              /\ UNCHANGED <<sg_exc, sg_failed, responsive>>
         ELSE /\ sg_pc' = "raised" /\ sg_exc' = "RestartSession"
              /\ DriverCallFailed /\ UNCHANGED sg_polls
    /\ sg_refreshes' = sg_refreshes + 1
    /\ UNCHANGED <<sg_context, sg_wait, main_vars, cls_vars>>

\* The wait after the refresh refreshing again while the page looks stuck.
SgRepollRefreshesAgain ==
    /\ sg_pc = "repoll"
    /\ IF sg_polls = 0
       THEN /\ sg_pc' = AfterReady
            /\ UNCHANGED <<sg_polls, sg_exc, sg_failed, responsive, readyState, has_loader>>
       ELSE \E h1 \in Hangs(1), s1 \in ReadyStates :
              IF h1 # 0
              THEN /\ sg_pc' = "raised" /\ sg_exc' = "RestartSession"
                   /\ DriverCallFailed /\ UNCHANGED sg_polls
              ELSE IF ~dom_ready(s1)
              THEN /\ readyState' = s1
                   /\ sg_pc' = "repoll" /\ sg_polls' = sg_polls - 1
                   /\ UNCHANGED <<sg_exc, sg_failed, responsive, has_loader>>
              ELSE \E h2 \in 0..2, s2 \in ReadyStates, l \in BOOLEAN :
                     /\ sg_failed' = (sg_failed \/ h2 # 0)
                     /\ responsive' = (h2 = 0)
                     /\ readyState' = IF h2 = 1 THEN s1 ELSE s2
                     /\ has_loader' = IF h2 = 0 THEN l ELSE has_loader
                     /\ IF page_seems_stuck(h2, s2, l)
                        THEN sg_pc' = "refresh" /\ UNCHANGED sg_polls
                        ELSE sg_pc' = AfterReady /\ UNCHANGED sg_polls
                     /\ UNCHANGED sg_exc
    /\ UNCHANGED <<sg_context, sg_refreshes, sg_wait, main_vars, cls_vars>>

\* One iteration of the wait after the refresh (or its time is up):
\* if self._dom_ready() and not self._page_seems_stuck(): break
SgRepoll ==
    /\ sg_pc = "repoll"
    /\ IF sg_polls = 0
       THEN /\ sg_pc' = AfterReady
            /\ UNCHANGED <<sg_polls, sg_exc, sg_failed, responsive, readyState, has_loader>>
       ELSE \E h1 \in Hangs(1), s1 \in ReadyStates :
              IF h1 # 0
              THEN /\ sg_pc' = "raised" /\ sg_exc' = "RestartSession"
                   /\ DriverCallFailed /\ UNCHANGED sg_polls
              ELSE IF ~dom_ready(s1)
              THEN /\ readyState' = s1
                   /\ sg_pc' = "repoll" /\ sg_polls' = sg_polls - 1
                   /\ UNCHANGED <<sg_exc, sg_failed, responsive, has_loader>>
              ELSE \E h2 \in 0..2, s2 \in ReadyStates, l \in BOOLEAN :
                     /\ sg_failed' = (sg_failed \/ h2 # 0)
                     /\ responsive' = (h2 = 0)
                     /\ readyState' = IF h2 = 1 THEN s1 ELSE s2
                     /\ has_loader' = IF h2 = 0 THEN l ELSE has_loader
                     /\ IF page_seems_stuck(h2, s2, l)
                        THEN sg_pc' = "repoll" /\ sg_polls' = sg_polls - 1
                        ELSE sg_pc' = AfterReady /\ UNCHANGED sg_polls
                     /\ UNCHANGED sg_exc
    /\ UNCHANGED <<sg_context, sg_refreshes, sg_wait, main_vars, cls_vars>>

\* The ready-marker wait raising RestartSession on every timeout.
SgMarkerAlwaysRaises ==
    /\ sg_pc = "marker"
    /\ \E h \in Hangs(1), e \in DriverErrors, w \in {"found", "TimeoutException"} :
         IF h # 0
         THEN /\ sg_pc' = "raised" /\ sg_exc' = e /\ sg_wait' = e
              /\ DriverCallFailed
         ELSE IF w = "found"
         THEN /\ sg_pc' = "returned" /\ sg_wait' = w
              /\ UNCHANGED <<sg_exc, sg_failed, responsive, readyState, has_loader>>
         ELSE \E h2 \in 0..2, s \in ReadyStates, l \in BOOLEAN :
                /\ Observe(h2, s, l) /\ sg_wait' = w
                /\ IF TRUE
                   THEN sg_pc' = "raised" /\ sg_exc' = "RestartSession"
                   ELSE sg_pc' = "returned" /\ UNCHANGED sg_exc
    /\ UNCHANGED <<sg_context, sg_polls, sg_refreshes, main_vars, cls_vars>>

\* WebDriverWait(self.driver, 15).until(presence_of_element_located(...)):
\* only TimeoutException is caught, and then the page is checked for stuck.
SgMarker ==
    /\ sg_pc = "marker"
    /\ \E h \in Hangs(1), e \in DriverErrors, w \in {"found", "TimeoutException"} :
         IF h # 0
         THEN /\ sg_pc' = "raised" /\ sg_exc' = e /\ sg_wait' = e
              /\ DriverCallFailed
         ELSE IF w = "found"
         THEN /\ sg_pc' = "returned" /\ sg_wait' = w
              /\ UNCHANGED <<sg_exc, sg_failed, responsive, readyState, has_loader>>
         ELSE \E h2 \in 0..2, s \in ReadyStates, l \in BOOLEAN :
                /\ Observe(h2, s, l) /\ sg_wait' = w
                /\ IF page_seems_stuck(h2, s, l)
                   THEN sg_pc' = "raised" /\ sg_exc' = "RestartSession"
                   ELSE sg_pc' = "returned" /\ UNCHANGED sg_exc
    /\ UNCHANGED <<sg_context, sg_polls, sg_refreshes, main_vars, cls_vars>>

NextNav ==
    \/ SgCall \/ SgGet \/ SgPoll \/ SgStuck \/ SgRefresh \/ SgRepoll \/ SgMarker

SpecNav == Init /\ [][NextNav]_vars

\* ------------------------------------------------------------ get_resume_start_page
\* The configured pages and the values the last_page of a state file written
\* for some other configuration may hold: null, a text, an integer.
ResumePages == 1..MaxResumePage
StrV == [tag |-> "str", val |-> 0]
StoredLastPages == {None, StrV} \cup {IntV(n) : n \in 0..(MaxResumePage + MaxBeyond)}

\* run() is about to ask for the page to resume from, with any configuration
\* and any stored last_page.
InitResume ==
    /\ start_page \in ResumePages /\ end_page \in ResumePages
    /\ last_page \in StoredLastPages
    /\ data = <<>> /\ seen_job_ids = {} /\ last_url = None
    /\ profile_poison_strikes = 0 /\ driver = "live"
    /\ pc = "resume" /\ restarts = 0 /\ page_num = 0 /\ jobs = <<>> /\ i = 0
    /\ exc = "None" /\ exit = "None" /\ prev_exc = "None"
    /\ live = 1 /\ notice = "None" /\ outcome = "running"
    /\ encountered = {} /\ expSince = FALSE /\ saveSince = FALSE
    /\ disk = EmptyDisk
    /\ runs = 0 /\ faults = 0 /\ itemFailed = FALSE
    /\ resumed = [exported |-> {}, mid_items |-> FALSE]
    /\ acquisitions = 1
    /\ NavIdle /\ ClsIdle

\* resume_from = self.get_resume_start_page(); the result is kept in page_num.
ResumeFrom ==
    /\ pc = "resume"
    /\ page_num' = get_resume_start_page
    /\ pc' = "resumed"
    /\ UNCHANGED <<self_vars, restarts, jobs, i, exc, exit, prev_exc, env_vars, notice,
                   aux_vars, obs_vars, acquisitions, side_vars>>

NextResume == ResumeFrom

SpecResume == InitResume /\ [][NextResume]_vars

\* ------------------------------------------------------------ profile_healthy
\* The pages the classifier is asked about after the feed was opened: each of
\* the address, the title and the marker lookups (all alike) may match, not
\* match or raise.
FeedSignals ==
    {[address |-> a, title |-> t, markers |-> [k \in 1..NumSelectors |-> m]] :
        a \in {"content", "checkpoint", "raise"},
        t \in {"plain", "verification", "raise"},
        m \in {"absent", "present", "raise"}}

\* run() is about to call profile_healthy on a session that is logged in;
\* an earlier health check of this run may have failed once.
InitHealth ==
    /\ start_page \in Pages /\ end_page \in Pages
    /\ data = <<>> /\ seen_job_ids = {} /\ last_page = None /\ last_url = None
    /\ profile_poison_strikes \in {0, 1} /\ driver = "live"
    /\ pc = "health" /\ restarts = profile_poison_strikes
    /\ page_num = 0 /\ jobs = <<>> /\ i = 0
    /\ exc = "None" /\ exit = "None"
    /\ prev_exc = IF profile_poison_strikes = 0 THEN "None" ELSE "RestartSession"
    /\ live = 1 /\ notice = "None" /\ outcome = "running"
    /\ encountered = {} /\ expSince = FALSE /\ saveSince = FALSE
    /\ disk = [EmptyDisk EXCEPT !.profile = TRUE]
    /\ runs = 0 /\ faults = 0 /\ itemFailed = FALSE
    /\ resumed = [exported |-> {}, mid_items |-> FALSE]
    /\ acquisitions = restarts + 1
    /\ NavIdle /\ ClsIdle

\* profile_healthy enters safe_get for the feed, waiting for //body.
HealthSafeGet ==
    /\ pc = "health" /\ sg_pc = "idle"
    /\ sg_context' = "profile_healthy"
    /\ sg_pc' = "get" /\ sg_exc' = "None" /\ sg_failed' = FALSE /\ sg_polls' = 0
    /\ sg_refreshes' = 0 /\ sg_wait' = "None"
    /\ UNCHANGED <<responsive, readyState, has_loader, main_vars, cls_vars>>

\* safe_get is over: when it returned the classifier is asked, and run() acts
\* on what profile_healthy gave (the strike counter, the RestartSession, the
\* start of the page loop).
HealthReturn ==
    /\ pc = "health" /\ sg_pc \in {"returned", "raised"}
    /\ IF sg_pc = "returned"
       THEN \E sig \in FeedSignals :
              signals' = sig /\ blocked' = is_blocked_or_checkpoint(sig)
       ELSE UNCHANGED <<signals, blocked>>
    /\ UNCHANGED list_wait
    /\ LET sg == IF sg_pc = "returned" THEN "ok"
                 ELSE IF sg_exc = "RestartSession" THEN sg_exc ELSE "WebDriverException"
       IN IF profile_healthy(sg, blocked')
          THEN /\ profile_poison_strikes' = 0
               /\ IF get_resume_start_page >= end_page
                  THEN page_num' = get_resume_start_page /\ pc' = "scrape_page"
                  ELSE page_num' = page_num /\ pc' = "final_export"
               /\ UNCHANGED <<exc, jobs, i>>
          ELSE /\ profile_poison_strikes' = profile_poison_strikes + 1
               /\ Throw("RestartSession")
               /\ UNCHANGED page_num
    /\ UNCHANGED <<start_page, end_page, data, seen_job_ids, last_page, last_url,
                   driver, restarts, exit, prev_exc, env_vars, notice, aux_vars,
                   obs_vars, acquisitions, nav_vars>>

NextHealth ==
    \/ HealthSafeGet \/ SgGet \/ SgPoll \/ SgStuck \/ SgRefresh \/ SgRepoll \/ SgMarker
    \/ HealthReturn

SpecHealth == InitHealth /\ [][NextHealth]_vars

\* ------------------------------------------------------------ manual_login
\* run() is about to call manual_login on a session just acquired.
InitLogin ==
    /\ start_page \in Pages /\ end_page \in Pages
    /\ data = <<>> /\ seen_job_ids = {} /\ last_page = None /\ last_url = None
    /\ profile_poison_strikes = 0 /\ driver = "live"
    /\ pc = "manual_login" /\ restarts = 0 /\ page_num = 0 /\ jobs = <<>> /\ i = 0
    /\ exc = "None" /\ exit = "None" /\ prev_exc = "None"
    /\ live = 1 /\ notice = "None" /\ outcome = "running"
    /\ encountered = {} /\ expSince = FALSE /\ saveSince = FALSE
    /\ disk = [EmptyDisk EXCEPT !.profile = TRUE]
    /\ runs = 0 /\ faults = 0 /\ itemFailed = FALSE
    /\ resumed = [exported |-> {}, mid_items |-> FALSE]
    /\ acquisitions = 1
    /\ NavIdle /\ ClsIdle

\* One call of manual_login: safe_get of base_url, the prompt, the wait for
\* the list (w); on a TimeoutException the classifier is asked about the page
\* as it then is (sig1), and when it answers True guard_not_blocked asks it
\* again about the page as it is by then (sig2). list_wait keeps w, blocked
\* the first answer and signals the page of the last call.
LoginCall ==
    /\ pc = "manual_login"
    /\ \E sg \in SafeGetOutcomes(FALSE), w \in {"found", "TimeoutException", "WebDriverException"},
          sig1 \in FeedSignals, sig2 \in FeedSignals :
         LET b1 == is_blocked_or_checkpoint(sig1)
             b2 == is_blocked_or_checkpoint(sig2)
             asked == sg = "ok" /\ w = "TimeoutException"
         IN /\ list_wait' = IF sg = "ok" THEN w ELSE "None"
            /\ blocked' = IF asked THEN b1 ELSE "None"
            /\ signals' = IF asked THEN (IF b1 = "True" THEN sig2 ELSE sig1) ELSE signals
            /\ \E g \in guard_not_blocked(b2, disk, faults, last_url) :
                 LET r == manual_login(sg, w, b1, g.out)
                 IN \/ /\ r = "ok"
                       /\ pc' = "health"
                       /\ UNCHANGED <<exc, jobs, i, disk, faults, last_url, expSince, saveSince>>
                       /\ notice' = "None"
                    \/ /\ r \in {"RestartSession", "Exception"}
                       /\ Throw(r) /\ expSince' = FALSE /\ saveSince' = FALSE
                       /\ UNCHANGED <<disk, faults, last_url>> /\ notice' = "None"
                    \/ /\ r = "RuntimeError"
                       /\ Throw(r) /\ expSince' = TRUE /\ saveSince' = TRUE
                       /\ disk' = g.disk /\ faults' = g.faults /\ last_url' = g.last_url
                       /\ notice' = "login needed"
    /\ UNCHANGED <<start_page, end_page, data, seen_job_ids, last_page,
                   profile_poison_strikes, driver, restarts, page_num, exit, prev_exc, live,
                   runs, outcome, resumed, encountered, itemFailed, acquisitions, nav_vars>>

NextLogin == LoginCall

SpecLogin == InitLogin /\ [][NextLogin]_vars

\* ------------------------------------------------------------ load_state
\* The state files load_state may find: none, one it cannot parse, one that
\* is no object, an object with a seen_job_ids that is no list of strings,
\* and a well-formed one written by save_state for some progress.
StoredPages == {None} \cup {IntV(n) : n \in Pages}
StoredUrls == {None, get_page_url(1)}
StateFiles ==
    {NoFile, Unparseable, NotObject}
    \cup {BadSeen(lp, lu) : lp \in StoredPages, lu \in StoredUrls}
    \cup {[kind |-> "ok", reason |-> "entered", last_page |-> lp, last_url |-> lu,
           start_page |-> MaxPage, end_page |-> 1,
           seen_job_ids |-> SortedList(ss), rows_collected |-> 0] :
             lp \in StoredPages, lu \in StoredUrls, ss \in SUBSET Jobs}

\* run() is about to call load_state, the object holding any progress of an
\* earlier loop iteration and the disk any state file.
InitLoad ==
    /\ start_page \in Pages /\ end_page \in Pages
    /\ last_page \in StoredPages /\ last_url \in StoredUrls
    /\ seen_job_ids \in SUBSET Jobs
    /\ disk \in {[EmptyDisk EXCEPT !.state = f] : f \in StateFiles}
    /\ data = <<>> /\ profile_poison_strikes = 0 /\ driver = "None"
    /\ pc = "load_state" /\ restarts = 0 /\ page_num = 0 /\ jobs = <<>> /\ i = 0
    /\ exc = "None" /\ exit = "None" /\ prev_exc = "None"
    /\ live = 0 /\ notice = "None" /\ outcome = "running"
    /\ encountered = {} /\ expSince = FALSE /\ saveSince = FALSE
    /\ runs = 0 /\ faults = 0 /\ itemFailed = FALSE
    /\ resumed = [exported |-> {}, mid_items |-> FALSE]
    /\ acquisitions = 0
    /\ NavIdle /\ ClsIdle

\* One call of load_state; pc keeps the value it returned.
LoadStateCall ==
    /\ pc = "load_state"
    /\ LET r == load_state(disk.state)
       IN /\ last_page' = r.last_page
          /\ last_url' = r.last_url
          /\ seen_job_ids' = r.seen_job_ids
          /\ pc' = IF r.loaded THEN "load_state_True" ELSE "load_state_False"
    /\ UNCHANGED <<start_page, end_page, data, profile_poison_strikes, driver,
                   restarts, page_num, jobs, i, exc, exit, prev_exc, env_vars, notice,
                   aux_vars, obs_vars, acquisitions, side_vars>>

NextLoad == LoadStateCall

SpecLoad == InitLoad /\ [][NextLoad]_vars

\* ------------------------------------------------------------ is_blocked_or_checkpoint
\* A page showing any combination of signals, the classifier not yet called.
InitClassifier ==
    /\ start_page \in Pages /\ end_page \in Pages
    /\ Constructed
    /\ disk = EmptyDisk
    /\ runs = 0 /\ faults = 0 /\ itemFailed = FALSE
    /\ resumed = [exported |-> {}, mid_items |-> FALSE]
    /\ acquisitions = 0
    /\ NavIdle
    /\ signals \in Signals /\ blocked = "None" /\ list_wait = "None"

\* One call of is_blocked_or_checkpoint on the page.
Classify ==
    /\ blocked = "None"
    /\ blocked' = is_blocked_or_checkpoint(signals)
    /\ UNCHANGED <<signals, list_wait, main_vars, nav_vars>>

NextClassifier == Classify

SpecClassifier == InitClassifier /\ [][NextClassifier]_vars

\* ------------------------------------------------------------ properties
\* No job id occurs in two rows.
NoDuplicates(rows) ==
    \A a, b \in 1..Len(rows) : a # b => rows[a].job_id # rows[b].job_id

\* A run of run() that reached "SCRAPING COMPLETE".
Completed == pc = "done" /\ outcome = "completed"

\* C1: when no detail fetch failed, the workbook at the end of a completed run
\* holds exactly one row for every job id read off an extracted list page:
\* none is missing and none occurs twice.
C1_OneRecordPerJob ==
    (Completed /\ ~itemFailed) =>
        /\ encountered \subseteq JobIds(disk.excel)
        /\ NoDuplicates(disk.excel)

\* C2: after a crash inside the item loop and a re-run that completed, every
\* job id of the seen set had a row in the workbook at the resume or was
\* fetched by the re-run: no id is silently dropped.
C2_NoDropOnResume ==
    (Completed /\ runs >= 1 /\ resumed.mid_items /\ ~itemFailed) =>
        \A j \in seen_job_ids : j \in resumed.exported \/ j \in JobIds(data)

\* C3: the set of job ids in the workbook never shrinks, whatever step is
\* taken (a further export, a session restart, a crash and a re-run).
C3_ExportNeverShrinks ==
    [][JobIds(disk.excel) \subseteq JobIds(disk.excel')]_vars

\* C4: list extraction is the deduplication gate: the jobs it queues for a
\* detail fetch are not in seen_job_ids as it stood when the page was
\* extracted, and the queue is not changed while the items are fetched.
C4_GateBeforeFetch ==
    [][/\ (pc = "sp_extract" /\ pc' = "item_fetch") =>
            \A k \in 1..Len(jobs') : jobs'[k].job_id \notin seen_job_ids
       /\ (pc \in {"item_fetch", "item_save"} /\ pc' \in {"item_fetch", "item_save"}) =>
            jobs' = jobs
       /\ (pc' = "item_fetch" /\ pc # "item_fetch") => pc \in {"sp_extract", "item_save"}
       /\ (pc = "load_state" /\ pc' = "setup_driver" /\ disk.state.kind = "ok") =>
            SetOfList(disk.state.seen_job_ids) \subseteq seen_job_ids']_vars

\* A re-run after a crash inside the item loop is about to fetch a job while
\* another job of the same page, already in the persisted seen set, was left out.
C4_Witness ==
    /\ runs = 1 /\ resumed.mid_items /\ pc = "item_fetch" /\ data = <<>>
    /\ disk.state.kind = "ok"
    /\ \E j \in encountered :
         /\ j \in SetOfList(disk.state.seen_job_ids)
         /\ \A k \in 1..Len(jobs) : jobs[k].job_id # j

\* The handlers of run() that count a restart: Blocked (RuntimeError) and
\* RestartSession draw on one counter.
RestartHandlers == {"except_RuntimeError", "except_RestartSession"}

\* C5: every Blocked or RestartSession failure reaching run() adds one to the
\* same counter; the (MAX_RESTARTS+1)-th makes run() return without another
\* setup_driver, and each of the first MAX_RESTARTS is followed by load_state
\* and setup_driver (unless the operator interrupts first).
C5_RestartBudget ==
    [][/\ (pc \in RestartHandlers /\ runs' = runs) =>
            /\ pc' = "finally"
            /\ restarts' = restarts + 1
            /\ IF restarts' = MAX_RESTARTS + 1
               THEN exit' = "return" /\ outcome' = "too_many_restarts"
               ELSE exit' = "continue" /\ restarts' <= MAX_RESTARTS
       /\ (pc = "finally" /\ runs' = runs) =>
            pc' = IF exit = "continue" THEN "load_state" ELSE "done"
       /\ (pc = "load_state" /\ runs' = runs) =>
            pc' \in {"setup_driver", "except_KeyboardInterrupt"}
       /\ (pc \notin RestartHandlers /\ runs' = runs) => restarts' = restarts
       /\ pc = "done" => runs' = runs + 1
       /\ pc' = "setup_driver" => restarts' <= MAX_RESTARTS]_vars

\* run() gave up on the (MAX_RESTARTS+1)-th restart, a Blocked failure that
\* followed a RestartSession failure.
C5_Witness ==
    /\ pc = "done" /\ outcome = "too_many_restarts"
    /\ restarts = MAX_RESTARTS + 1
    /\ exc = "RuntimeError" /\ prev_exc = "RestartSession"

\* C6 as stated: a RestartSession handled within the budget resets the
\* profile exactly when the failure before it in this run was a
\* RestartSession too.
C6_ResetOnSecondConsecutive ==
    [][(pc = "except_RestartSession" /\ pc' = "finally" /\ exit' = "continue") =>
          (notice' = "profile reset" <=> prev_exc = "RestartSession")]_vars

\* C6, amended: a RestartSession handled within the budget resets the profile
\* exactly when profile_poison_strikes >= 2, and restarts the session on the
\* same profile otherwise; the strikes count the failed health checks since
\* the last healthy one or the last reset, and nothing else.
C6_ResetOnSecondStrike ==
    [][/\ (pc = "except_RestartSession" /\ pc' = "finally" /\ exit' = "continue") =>
            IF profile_poison_strikes >= 2
            THEN /\ notice' = "profile reset" /\ ~disk'.profile
                 /\ profile_poison_strikes' = 0
            ELSE /\ notice' = "session restarted" /\ disk'.profile = disk.profile
                 /\ profile_poison_strikes' = profile_poison_strikes
       /\ (pc = "health" /\ pc' = "except_RestartSession") =>
            profile_poison_strikes' = profile_poison_strikes + 1
       /\ (pc = "health" /\ pc' \in {"scrape_page", "final_export"}) =>
            profile_poison_strikes' = 0
       /\ (pc \notin {"health", "except_RestartSession"} /\ runs' = runs) =>
            profile_poison_strikes' = profile_poison_strikes]_vars

\* The second of two failed health checks in a row has just reset the profile.
C6_Witness ==
    /\ pc = "finally" /\ notice = "profile reset" /\ restarts = 2
    /\ exc = "RestartSession" /\ prev_exc = "RestartSession"
    /\ ~disk.profile

\* C7: when a driver call failed during safe_get, safe_get ends by raising
\* RestartSession: it does not return, and it raises no other class.
C7_SafeGetConvertsEveryFailure ==
    /\ sg_pc = "raised" => sg_exc = "RestartSession"
    /\ (sg_pc = "returned") => ~sg_failed

\* C8: when the handler of a Blocked or RestartSession failure is over (the
\* loop is about to go round or run() about to exit), an export and a state
\* save were both attempted since the failure.
C8_ExportAndSaveOnEveryBranch ==
    (pc = "finally" /\ exc \in {"RuntimeError", "RestartSession"}) =>
        (expSince /\ saveSince)

\* C9: no session is live when setup_driver is about to be called or after
\* run() is over, and at most one session is live at any time.
C9_SessionReleased ==
    /\ live \in {0, 1}
    /\ pc \in {"load_state", "setup_driver", "done"} => live = 0
    /\ live = 1 => driver = "live"

\* The loop goes round after a Blocked failure: the handler quit the session
\* and the finally block met the already-quit driver.
C9_Witness ==
    /\ pc = "setup_driver" /\ restarts >= 1 /\ prev_exc = "RuntimeError" /\ live = 0

\* C10: the handler of any other failure attempts an export and a state save,
\* leaves the restart counter alone and re-raises; run() then ends without
\* another session.
C10_UnclassifiedIsFatal ==
    [][/\ (pc' = "except_Exception" /\ pc # "except_Exception") =>
            ~expSince' /\ ~saveSince'
       /\ (pc = "except_Exception" /\ runs' = runs) =>
            /\ pc' = "finally" /\ exit' = "raise"
            /\ expSince' /\ saveSince' /\ restarts' = restarts
            /\ live' = live
       /\ (pc = "finally" /\ exit = "raise" /\ runs' = runs) =>
            pc' = "done" /\ outcome' = "raised" /\ live' = 0]_vars

\* run() ended by re-raising a failure that was none of the typed ones, with
\* rows collected.
C10_Witness ==
    /\ pc = "done" /\ exc = "Exception" /\ exit = "raise" /\ outcome = "raised"
    /\ data # <<>> /\ expSince /\ saveSince

\* C11: once the handler of a KeyboardInterrupt is over, the export and the
\* state save were both attempted and run() returns normally (no exception
\* reaches the caller); when run() is over the session is released.
C11_InterruptExitsCleanly ==
    (pc \in {"finally", "done"} /\ exc = "KeyboardInterrupt") =>
        /\ expSince /\ saveSince
        /\ exit = "return" /\ outcome = "interrupted"
        /\ pc = "done" => live = 0

\* C12: a detail fetch that fails appends no row, keeps the queue of the page
\* and moves to the next queued job, or to the page's export after the last
\* one; it raises nothing to run() and counts no restart. The export step of
\* the page then attempts the export and goes on to the next page (or, after
\* the last page, to the final export), unless the write itself fails.
C12_ItemFailureIsolated ==
    [][/\ (pc = "item_fetch" /\ runs' = runs /\ pc' # "except_KeyboardInterrupt"
             /\ data' = data) =>
            /\ jobs' = jobs /\ restarts' = restarts /\ exc' = exc
            /\ IF i < Len(jobs) THEN pc' = "item_fetch" /\ i' = i + 1
               ELSE pc' = "sp_export"
       /\ (pc = "item_fetch" /\ runs' = runs /\ pc' # "except_KeyboardInterrupt"
             /\ data' # data) =>
            pc' = "item_save" /\ jobs' = jobs /\ i' = i
       /\ (pc = "sp_export" /\ runs' = runs /\ pc' \notin {"except_KeyboardInterrupt",
                                                            "except_Exception"}) =>
            /\ data # <<>> => disk'.excel = data
            /\ IF page_num - 1 >= end_page
               THEN pc' = "scrape_page" /\ page_num' = page_num - 1
               ELSE pc' = "final_export"]_vars

\* On the first page of a run the first job's fetch failed and the second
\* job of the page was fetched all the same.
C12_Witness ==
    /\ runs = 0 /\ restarts = 0 /\ page_num = start_page
    /\ itemFailed /\ pc = "item_save" /\ i = 2 /\ Len(data) = 1

\* The positions of run() between a healthy health check and the end of the
\* traversal.
TraversalPcs ==
    {"scrape_page", "sp_guard", "sp_scroll", "sp_extract", "item_fetch", "item_save",
     "sp_export", "final_export", "final_save"}

\* C15: profile_poison_strikes is always in 0..2, is 0 while a traversal runs
\* and right after a profile reset, and changes only by a failed health check
\* adding exactly 1 or by a reset to 0.
C15_StrikesBounded ==
    /\ [](/\ profile_poison_strikes \in 0..2
          /\ pc \in TraversalPcs => profile_poison_strikes = 0
          /\ notice = "profile reset" => profile_poison_strikes = 0)
    /\ [][/\ (pc = "health" /\ pc' = "except_RestartSession") =>
               profile_poison_strikes' = profile_poison_strikes + 1
          /\ (profile_poison_strikes' # profile_poison_strikes) =>
               \/ pc = "health" /\ pc' = "except_RestartSession"
               \/ profile_poison_strikes' = 0]_vars

\* The health check failed twice in a row: the counter stands at 2 when the
\* second RestartSession reaches its handler.
C15_Witness ==
    /\ pc = "except_RestartSession" /\ profile_poison_strikes = 2 /\ restarts = 1

\* C17: run() ends, given that every wait and every login prompt ends: it
\* calls setup_driver at most MAX_RESTARTS+1 times, because an iteration that
\* does not leave run() has counted a restart, and the counter never goes down.
C17_RunTerminates ==
    /\ [](/\ acquisitions <= MAX_RESTARTS + 1
          /\ acquisitions <= restarts + 1
          /\ (pc = "finally" /\ exit = "continue") => acquisitions = restarts)
    /\ [][restarts' >= restarts]_vars
    /\ <>(pc = "done")

\* A run that used every acquisition the budget allows and then completed.
C17_Witness ==
    /\ pc = "done" /\ outcome = "completed" /\ acquisitions = MAX_RESTARTS + 1
    /\ restarts = MAX_RESTARTS

\* C20: a job id enters seen_job_ids only after its row was appended: in a run
\* that loaded nothing from a state file, every seen id has a row in self.data.
C20_SeenOnlyAfterAppend ==
    (runs = 0 /\ restarts = 0) => seen_job_ids \subseteq JobIds(data)

\* C13: one call of safe_get issues at most one driver.refresh(), and once it
\* has refreshed it is only re-polling, waiting for the marker, or over.
C13_AtMostOneRefresh ==
    /\ sg_refreshes \in {0, 1}
    /\ sg_refreshes = 1 => sg_pc \in {"repoll", "marker", "returned", "raised"}

\* After its one refresh the page still showed a loader when the time of the
\* second wait was up, and safe_get went on to the marker wait.
C13_Witness ==
    /\ sg_refreshes = 1 /\ sg_pc = "marker" /\ sg_polls = 0
    /\ responsive /\ readyState = "loading" /\ has_loader

\* What _page_seems_stuck gives on the page as it now is.
StuckNow == ~responsive \/ (~dom_ready(readyState) /\ has_loader)

C18_StuckDetector ==
    [][(sg_pc = "stuck" /\ sg_pc' # "stuck") =>
          /\ sg_pc' = "refresh" <=>
                (~responsive' \/ (readyState' \notin {"complete", "interactive"}
                                    /\ has_loader'))
          /\ (responsive' /\ readyState' = "complete") => sg_pc' # "refresh"]_vars

\* The stuck check answered True on a loading page that shows a loader.
C18_Witness ==
    /\ sg_pc = "refresh" /\ responsive /\ readyState = "loading" /\ has_loader
    /\ ~sg_failed

\* C16: get_resume_start_page gives the stored last_page when it is an integer
\* with end_page <= last_page <= start_page and start_page in every other
\* case (10/1 with 5 gives 5, with 15 gives 10); so with start_page >= end_page
\* the result lies in [end_page, start_page].
C16_ResumeStartPage ==
    pc = "resumed" =>
        /\ (last_page \in {IntV(n) : n \in end_page..start_page}) =>
              page_num = last_page.val
        /\ (last_page \notin {IntV(n) : n \in end_page..start_page}) =>
              page_num = start_page
        /\ (start_page = 10 /\ end_page = 1 /\ last_page = IntV(5)) => page_num = 5
        /\ (start_page = 10 /\ end_page = 1 /\ last_page = IntV(15)) => page_num = 10
        /\ start_page >= end_page => page_num \in end_page..start_page

\* Configured 10 down to 1 with a stored last_page of 15: the result is 10.
C16_Witness ==
    /\ pc = "resumed" /\ start_page = 10 /\ end_page = 1
    /\ last_page = IntV(15) /\ page_num = 10

\* The page shows a positive signal: the address, the title or a marker matches.
PositiveMatch ==
    \/ signals.address = "checkpoint"
    \/ signals.title = "verification"
    \/ \E k \in 1..NumSelectors : signals.markers[k] = "present"

\* C19: is_blocked_or_checkpoint never raises, whichever lookup fails, and
\* answers True exactly when the address, the title or a marker matches.
C19_ClassifierFailsOpen ==
    blocked # "None" =>
        /\ blocked # "raise"
        /\ blocked = "True" <=> PositiveMatch

\* C21: seen_job_ids never loses a job id during one run of run(), whatever
\* step is taken: an extraction, a state save that failed, the load_state at
\* the top of the next loop iteration.
C21_SeenNeverShrinks ==
    [][seen_job_ids \subseteq seen_job_ids']_vars

\* C22: a row appended by a detail fetch is followed by the state save before
\* the next detail fetch (or the page's export) begins, and a save that was
\* written holds the job id of every row of self.data in its seen_job_ids and
\* the number of rows in its rows_collected.
C22_StatePersistedPerRecord ==
    [][/\ (pc = "item_fetch" /\ data' # data) => pc' = "item_save"
       /\ (pc = "item_save" /\ pc' # "except_KeyboardInterrupt") =>
            /\ pc' \in {"item_fetch", "sp_export"}
            /\ faults' = faults =>
                 /\ disk'.state.kind = "ok"
                 /\ JobIds(data) \subseteq SetOfList(disk'.state.seen_job_ids)
                 /\ disk'.state.rows_collected = Len(data)]_vars

\* C23: when load_state returns False (no file, a file it cannot parse, a
\* malformed one), last_page, last_url and seen_job_ids are as they were
\* before the call.
C23_LoadAllOrNothing ==
    [][(pc = "load_state" /\ pc' = "load_state_False") =>
          /\ last_page' = last_page
          /\ last_url' = last_url
          /\ seen_job_ids' = seen_job_ids]_vars

\* C24: after a healthy health check the traversal starts at the resume page;
\* each page after it is the next one in the configured direction (down when
\* start_page >= end_page, up when start_page < end_page); a page counts as
\* entered once scrape_page has recorded it in last_page; and the final
\* export and the "completed" save are reached only from the last page of
\* the range.
C24_TraversalCoversRange ==
    [][/\ (pc = "health" /\ pc' \in TraversalPcs) =>
            pc' = "scrape_page" /\ page_num' = get_resume_start_page
       /\ (pc \in {"sp_guard", "sp_export"} /\ pc' = "scrape_page") =>
            page_num' = IF start_page >= end_page THEN page_num - 1 ELSE page_num + 1
       /\ (pc = "scrape_page" /\ pc' = "sp_guard") => last_page' = IntV(page_num)
       /\ (pc' = "final_export" /\ pc # "final_export") =>
            /\ pc \in {"sp_guard", "sp_export"}
            /\ page_num = end_page /\ last_page = IntV(end_page)]_vars

\* The positions inside scrape_page.
ScrapePagePcs ==
    {"scrape_page", "sp_guard", "sp_scroll", "sp_extract", "item_fetch", "item_save",
     "sp_export"}

\* C25: scrape_page returns to the page loop only through its export step, and
\* the "completed" save is reached only through the final export, which
\* follows the last page.
C25_ExportPerPage ==
    [][/\ (pc \in ScrapePagePcs /\ pc' \in {"scrape_page", "final_export"}) =>
            pc = "sp_export"
       /\ (pc' = "final_save" /\ pc # "final_save") => pc = "final_export"
       /\ (outcome' = "completed" /\ outcome # "completed") => pc = "final_save"]_vars

\* C26: the health check is taken as healthy exactly when safe_get returned
\* from the feed, the body element was found there and the classifier
\* answered not blocked; healthy clears the strikes and starts the traversal,
\* anything else adds one strike and raises RestartSession.
C26_HealthyIffBodyAndNotBlocked ==
    [][(pc = "health" /\ pc' # "health") =>
          /\ (pc' \in TraversalPcs) <=>
                (sg_pc = "returned" /\ sg_wait = "found" /\ blocked' = "False")
          /\ pc' \in TraversalPcs => profile_poison_strikes' = 0
          /\ pc' \notin TraversalPcs =>
                /\ pc' = "except_RestartSession"
                /\ profile_poison_strikes' = profile_poison_strikes + 1]_vars

C28_CheckpointThenBlockedAbort ==
    [][/\ (pc' = "sp_guard" /\ pc # "sp_guard") => pc = "scrape_page"
       /\ (pc = "scrape_page" /\ pc' = "sp_guard") =>
            /\ last_page' = IntV(page_num)
            /\ faults' = faults =>
                 disk'.state = StateRecord("entered", IntV(page_num), get_page_url(page_num))
       /\ (pc \in {"sp_guard", "sp_scroll"} /\ pc' = "except_RuntimeError") =>
            /\ notice' = "login needed"
            /\ last_page' = IntV(page_num)
            /\ faults' = faults =>
                 /\ disk'.state = StateRecord("blocked", IntV(page_num), CurrentUrl)
                 /\ data # <<>> => disk'.excel = data
            /\ jobs' = <<>> /\ data' = data /\ seen_job_ids' = seen_job_ids
       /\ (pc' = "sp_scroll" /\ pc # "sp_scroll") => pc = "sp_guard"
       /\ (pc' = "sp_extract" /\ pc # "sp_extract") => pc = "sp_scroll"
       /\ (pc' = "item_fetch" /\ pc # "item_fetch") => pc \in {"sp_extract", "item_save"}
       /\ pc = "except_RuntimeError" => pc' = "finally"]_vars

\* Page 1 was entered with rows already collected and found blocked: the
\* workbook and the state file were written and the operator notified, and
\* the failure is at its handler.
C28_Witness ==
    /\ pc = "except_RuntimeError" /\ notice = "login needed" /\ page_num = 1
    /\ data # <<>> /\ disk.excel = data
    /\ disk.state.kind = "ok" /\ disk.state.reason = "blocked"
    /\ disk.state.last_page = IntV(1) /\ jobs = <<>>

\* C29: manual_login returns (run() goes on to the health check) only when
\* the list was found by the wait after ENTER; when the wait timed out it
\* ends with the Blocked failure if the classifier answered True and with an
\* unclassified failure otherwise.
C29_LoginOnlyWithList ==
    [][(pc = "manual_login" /\ pc' # "manual_login") =>
          /\ pc' = "health" => list_wait' = "found"
          /\ list_wait' = "TimeoutException" =>
                IF blocked' = "True" THEN pc' = "except_RuntimeError"
                ELSE pc' = "except_Exception"]_vars

\* C30: a detail fetch during which the page was found blocked (the operator
\* was notified) hands the Blocked failure to run(): the next position is the
\* RuntimeError handler, with no row appended and the queue dropped, and the
\* handler counts a restart before the session is used again.
C30_BlockedInFetchReachesRun ==
    [][/\ (pc = "item_fetch" /\ notice' = "login needed") =>
            /\ pc' = "except_RuntimeError"
            /\ data' = data /\ jobs' = <<>>
       /\ (pc = "except_RuntimeError" /\ pc' = "finally") =>
            restarts' = restarts + 1]_vars

\* C31: the profile folder is deleted only by the handler of a RestartSession
\* that found profile_poison_strikes >= 2 with the restart budget not used
\* up, never by the handler of a Blocked failure; after the step that deleted
\* it no session is live and the operator has been notified of the reset, and
\* setup_driver is entered only later, from load_state.
C31_ProfileDeletedOnlyOnHardReset ==
    [][/\ (disk.profile /\ ~disk'.profile) =>
            /\ pc = "except_RestartSession" /\ exc = "RestartSession"
            /\ profile_poison_strikes >= 2
            /\ restarts' = restarts + 1 /\ restarts' <= MAX_RESTARTS
            /\ live' = 0 /\ driver' = "None"
            /\ notice' = "profile reset"
            /\ pc' = "finally" /\ exit' = "continue"
       /\ notice' = "profile reset" => pc = "except_RestartSession" /\ ~disk'.profile
       /\ pc = "except_RuntimeError" => disk'.profile = disk.profile
       /\ (pc' = "setup_driver" /\ pc # "setup_driver") => pc = "load_state"]_vars

\* The handler of a RestartSession has just quit the session, deleted the
\* profile folder, cleared the strikes and notified the operator.
C31_Witness ==
    /\ pc = "finally" /\ exit = "continue" /\ exc = "RestartSession"
    /\ notice = "profile reset" /\ ~disk.profile
    /\ live = 0 /\ driver = "None" /\ profile_poison_strikes = 0

\* The positions of scrape_page after get_jobs_from_list_page returned.
ExtractedPcs == {"item_fetch", "item_save", "sp_export"}

\* C32: the page loop moves on from a page (to the next page, or to the final
\* export after the last one) only from a position of scrape_page that lies
\* after the extraction of the page's list, and such a position is reached
\* only through the extraction.
C32_AdvanceOnlyAfterExtraction ==
    [][/\ (pc \in ScrapePagePcs /\ pc' = "scrape_page" /\ page_num' # page_num) =>
            pc \in ExtractedPcs
       /\ (pc \in ScrapePagePcs /\ pc' = "final_export") => pc \in ExtractedPcs
       /\ (pc' \in ExtractedPcs /\ pc \notin ExtractedPcs) => pc = "sp_extract"]_vars

====
